---- MODULE Spec2Model ----
(***************************************************************************)
(* Model of src/app.py, the "VGS Buy Signal Tracker" Streamlit script.     *)
(*                                                                         *)
(* The script is one linear pipeline that Streamlit re-runs from the top   *)
(* on every parameter change: configure -> load_data (cached) -> flatten,  *)
(* fallback, ensure -> SMA, dropna, % below SMA -> weekly downtrend,       *)
(* combined trigger -> simulation -> display.  Each commented section of   *)
(* the script is one action; pc is the script's position.                  *)
(*                                                                         *)
(* Numbers: pandas/numpy floats are modelled as exact rationals <<n, d>>   *)
(* with d > 0, plus the three non-finite values <<0,0>> (nan), <<1,0>>     *)
(* (inf) and <<-1,0>> (-inf); rounding error is not modelled.  Dates are   *)
(* day numbers, day 0 being a Monday, so a date's weekday is date % 7 as   *)
(* in datetime.weekday().                                                  *)
(***************************************************************************)
EXTENDS Integers, Sequences, FiniteSets

(* ------------------------------ bounds -------------------------------- *)

\* Most rows the price provider returns (the real feed has about 250).
MaxRows == 11
\* Largest SMA window the model draws; the slider goes up to 60.
SmaTop == 6
\* Number of day changes the session lives through.
MaxDays == 1

(* ------------------------- program constants -------------------------- *)

WindowDays == 365
SmaMin == 5
ThresholdMin == -10
ThresholdMax == -1
AmountMin == 500
AmountDefault == 1500
BasePrice == 100
FRI == 4
TableRows == 90

\* The day of the first run, chosen so that start_date falls on a Friday.
Day0 == WindowDays + FRI

(* --------------------------- float arithmetic ------------------------- *)

Abs(x) == IF x < 0 THEN -x ELSE x

Sgn(x) == IF x > 0 THEN 1 ELSE IF x < 0 THEN -1 ELSE 0

Min(a, b) == IF a < b THEN a ELSE b

Max(a, b) == IF a > b THEN a ELSE b

RECURSIVE Gcd(_, _)
Gcd(a, b) == IF b = 0 THEN a ELSE Gcd(b, a % b)

\* The float n/d; a zero denominator gives nan (0/0) or a signed infinity.
Norm(n, d) ==
    IF d = 0 THEN <<Sgn(n), 0>>
    ELSE LET g == Gcd(Abs(n), Abs(d))
             s == Sgn(d)
         IN  <<(s * n) \div g, (s * d) \div g>>

Float(i) == <<i, 1>>

NaN == <<0, 0>>

IsNaN(r) == r = NaN

IsFinite(r) == r[2] # 0

FNeg(a) == <<-a[1], a[2]>>

FAdd(a, b) ==
    IF IsFinite(a) /\ IsFinite(b) THEN Norm(a[1] * b[2] + b[1] * a[2], a[2] * b[2])
    ELSE IF IsFinite(b) THEN a
    ELSE IF IsFinite(a) THEN b
    ELSE IF a = b THEN a ELSE NaN

FSub(a, b) == FAdd(a, FNeg(b))

FMul(a, b) == Norm(a[1] * b[1], a[2] * b[2])

\* numpy float division: x/0 is inf or nan with a RuntimeWarning, never an exception.
FDiv(a, b) == Norm(a[1] * b[2], a[2] * b[1])

\* a < b on floats; every comparison with nan is False.
FLess(a, b) ==
    /\ ~IsNaN(a)
    /\ ~IsNaN(b)
    /\ IF IsFinite(a) /\ IsFinite(b) THEN a[1] * b[2] < b[1] * a[2]
       ELSE IF ~IsFinite(a) /\ ~IsFinite(b) THEN a[1] < b[1]
       ELSE IF ~IsFinite(a) THEN a[1] < 0
       ELSE b[1] > 0

\* format(x, ",.2f"): the number in hundredths, rounded half to even; "nan"/"inf" as text.
Format2f(r) ==
    IF IsNaN(r) THEN <<"nan", 0>>
    ELSE IF ~IsFinite(r) THEN <<"inf", r[1]>>
    ELSE LET whole == r[1] \div r[2]
             n == 100 * (r[1] % r[2])
             q == 100 * whole + (n \div r[2])
             m == n % r[2]
         IN  <<"num", IF 2 * m > r[2] \/ (2 * m = r[2] /\ q % 2 = 1) THEN q + 1 ELSE q>>

RECURSIVE FSum(_)
FSum(s) == IF s = <<>> THEN Float(0) ELSE FAdd(s[1], FSum(Tail(s)))

RECURSIVE ISum(_)
ISum(s) == IF s = <<>> THEN 0 ELSE s[1] + ISum(Tail(s))

(* ------------------------------ frames -------------------------------- *)

\* A DataFrame: its column labels (tuples, one entry per level), whether the
\* columns are a MultiIndex, and its rows in index order.  A row carries every
\* column the script ever adds; a column not in `columns` holds a placeholder.
Row(date, close) ==
    [date |-> date, Close |-> close, SMA |-> NaN, PctBelowSMA |-> NaN,
     Downtrend |-> 0, BUY |-> 0, BUYFlag |-> "", UnitsBought |-> Float(0),
     Investment |-> 0]

Frame(columns, multi, rows) == [columns |-> columns, multi |-> multi, rows |-> rows]

EmptyFrame == Frame({}, FALSE, <<>>)

HasColumn(frame, name) == <<name>> \in frame.columns

IsEmpty(frame) == frame.rows = <<>>

AddColumn(frame, name) == [frame EXCEPT !.columns = @ \cup {<<name>>}]

(* ------------------------- the price provider ------------------------- *)

\* The price levels the closes of a series move along, the highest being the
\* demo walk's starting price.
Ladder == <<72, 75, 80, 88, 90, 96, BasePrice>>

\* Levels a series moves per row.
Slopes == {-1, 0, 1}

\* Weekdays on which a feed has rows.
Calendars == {{FRI}, {FRI - 1}, {FRI - 1, FRI}}

EveryDay == 0 .. 6

\* The first date on or after d whose weekday is in cal.
NextIn(cal, d) == d + CHOOSE o \in 0 .. 6 : (d + o) % 7 \in cal /\ \A p \in 0 .. o - 1 : (d + p) % 7 \notin cal

RECURSIVE DatesFrom(_, _, _)
DatesFrom(cal, d, n) ==
    IF n = 0 THEN <<>>
    ELSE LET first == NextIn(cal, d) IN <<first>> \o DatesFrom(cal, first + 1, n - 1)

\* Closes that start at the top level and move by s1 levels a row up to row
\* k + 1 and by s2 levels a row after it, within the ladder.
ShapeClose(i, s1, k, s2) ==
    LET level == Len(Ladder) + s1 * Min(i - 1, k) + s2 * Max(0, i - 1 - k)
    IN  Ladder[Max(1, Min(Len(Ladder), level))]

Series(cal, start, n, s1, k, s2) ==
    LET dates == DatesFrom(cal, start, n)
    IN  [i \in 1 .. n |-> Row(dates[i], ShapeClose(i, s1, k, s2))]

SeriesSet(cals, start, counts) ==
    {Series(cal, start, n, s[1], k, s[2]) :
        cal \in cals, n \in counts, k \in 0 .. MaxRows - 1, s \in Slopes \X Slopes}

\* The column layout yf.download gives a single ticker: (Price, Ticker) pairs.
YfColumns == {<<"Close", "VGS.AX">>, <<"Open", "VGS.AX">>}

\* What yf.download(ticker, start, end) may return: a price series of 1..MaxRows
\* rows starting at start_date, an empty frame, or a frame without a Close column.
Download(start, end) ==
    {Frame(YfColumns, TRUE, rows) : rows \in SeriesSet(Calendars, start, 1 .. MaxRows)}
        \cup {EmptyFrame}
        \cup {Frame({<<"Open">>}, FALSE, Series({FRI}, start, 1, 0, 0, 0))}

\* The demo series of lines 33-36: one row per calendar day from start_date,
\* prices a seeded random walk from 100.  The walk's values are drawn from the
\* same shapes as the provider's, and the series is cut to MaxRows rows.
DemoData(start, end) ==
    {Frame({<<"Close">>}, FALSE, rows) : rows \in SeriesSet({EveryDay}, start, {MaxRows})}

(* ------------------------------ state --------------------------------- *)

VARIABLES
    pc,                 \* position of the script run
    today,              \* the calendar day (datetime.today())
    start_date,
    end_date,
    sma_window,
    threshold,
    investment_amount,
    cache,              \* st.cache_data's entry for load_data()
    served,             \* how load_data() was answered in this run
    data,               \* the DataFrame `data`
    page,               \* the elements rendered so far, in order
    total_invested,
    total_units,
    current_value,
    gain

vars == <<pc, today, start_date, end_date, sma_window, threshold, investment_amount,
          cache, served, data, page, total_invested, total_units, current_value, gain>>

\* One rendered element.
Element(kind, label, value, delta) ==
    [kind |-> kind, label |-> label, value |-> value, delta |-> delta]

None == <<"none", 0>>

Init ==
    /\ pc = "configure"
    /\ today = Day0
    /\ start_date = Day0 - WindowDays
    /\ end_date = Day0
    /\ sma_window = SmaMin
    /\ threshold = ThresholdMin
    /\ investment_amount = AmountMin
    /\ cache = [filled |-> FALSE, value |-> EmptyFrame, start |-> 0, end |-> 0]
    /\ served = "none"
    /\ data = EmptyFrame
    /\ page = <<>>
    /\ total_invested = 0
    /\ total_units = Float(0)
    /\ current_value = Float(0)
    /\ gain = Float(0)

\* Lines 7-18: the title, the date range from today's date, the three sliders.
\* datetime.today() also carries the time of day; the model keeps the day only,
\* so two runs of one day have the same range.
Configure ==
    /\ pc = "configure"
    /\ page' = <<Element("title", "VGS Buy Signal Tracker", None, None)>>
    /\ end_date' = today
    /\ start_date' = today - WindowDays
    /\ sma_window' \in SmaMin .. SmaTop
    /\ threshold' \in {ThresholdMin, ThresholdMax}
    /\ investment_amount' \in {AmountMin, AmountDefault}
    /\ pc' = "load"
    /\ UNCHANGED <<today, cache, served, data, total_invested, total_units, current_value, gain>>

\* The key st.cache_data gives a call of load_data(): the function and its
\* arguments.  load_data takes none; ticker, start_date and end_date are globals
\* read inside the body and are not part of the key.
CacheKey(start, end) == "load_data"

CacheHit(start, end) == cache.filled /\ CacheKey(cache.start, cache.end) = CacheKey(start, end)

\* Lines 20-24, cache miss: the body runs and its result is stored.
LoadDataMiss ==
    /\ pc = "load"
    /\ ~CacheHit(start_date, end_date)
    /\ \E frame \in Download(start_date, end_date) :
          /\ cache' = [filled |-> TRUE, value |-> frame, start |-> start_date, end |-> end_date]
          /\ data' = frame
    /\ served' = "fetch"
    /\ pc' = "prepare"
    /\ UNCHANGED <<today, start_date, end_date, sma_window, threshold, investment_amount,
                   page, total_invested, total_units, current_value, gain>>

\* Lines 20-24, cache hit: a copy of the stored result, the body does not run.
LoadDataHit ==
    /\ pc = "load"
    /\ CacheHit(start_date, end_date)
    /\ data' = cache.value
    /\ served' = "cache"
    /\ pc' = "prepare"
    /\ UNCHANGED <<today, start_date, end_date, sma_window, threshold, investment_amount,
                   cache, page, total_invested, total_units, current_value, gain>>

(* ------------------- lines 26-42: flatten, fallback, ensure ------------- *)

\* Lines 26-28: a MultiIndex is replaced by its level-0 values.
Flatten(frame) ==
    IF frame.multi THEN Frame({<<c[1]>> : c \in frame.columns}, FALSE, frame.rows)
    ELSE frame

Unusable(frame) == IsEmpty(frame) \/ ~HasColumn(frame, "Close")

\* Fallback without the warning of line 32.
FallbackSilent(frame, pg, demo) ==
    IF Unusable(frame) THEN [data |-> demo, page |-> pg] ELSE [data |-> frame, page |-> pg]

\* Lines 30-36: an unusable frame is replaced by the demo series, with a warning.
Fallback(frame, pg, demo) ==
    IF Unusable(frame)
    THEN [data |-> demo,
          page |-> Append(pg, Element("warning", "Falling back to demo data.", None, None))]
    ELSE [data |-> frame, page |-> pg]

PrepareData ==
    /\ pc = "prepare"
    /\ \E demo \in IF Unusable(Flatten(data)) THEN DemoData(start_date, end_date)
                                               ELSE {EmptyFrame} :
          LET fb == Fallback(Flatten(data), page, demo)
              written == Append(fb.page, Element("write", "Loaded columns:", None, None))
          IN  /\ data' = fb.data
              /\ IF Unusable(fb.data)
                 THEN /\ page' = Append(written,
                              Element("error", "No valid price data available for VGS.", None, None))
                      /\ pc' = "stopped"
                 ELSE /\ page' = written
                      /\ pc' = "sma"
    /\ UNCHANGED <<today, start_date, end_date, sma_window, threshold, investment_amount,
                   cache, served, total_invested, total_units, current_value, gain>>

(* ------------------ lines 44-61: SMA, dropna, % below SMA -------------- *)

Closes(rows) == [i \in 1 .. Len(rows) |-> Float(rows[i].Close)]

\* Series.rolling(window).mean() at position i: nan until the window is full.
RollingMean(rows, window, i) ==
    IF i < window THEN NaN
    ELSE FDiv(FSum(SubSeq(Closes(rows), i - window + 1, i)), Float(window))

\* Line 46.
WithSMA(frame, window) ==
    AddColumn([frame EXCEPT !.rows =
                  [i \in 1 .. Len(frame.rows) |->
                      [frame.rows[i] EXCEPT !.SMA = RollingMean(frame.rows, window, i)]]],
              "SMA")

\* Line 52: dropna(subset=['Close', 'SMA']).
KeepRow(r) == ~IsNaN(Float(r.Close)) /\ ~IsNaN(r.SMA)

\* Line 52 left out: every row is kept.
DropNaNothing(rows) == rows

DropNa(rows) == SelectSeq(rows, KeepRow)

\* Line 61.
PctBelow(r) == FMul(FDiv(FSub(Float(r.Close), r.SMA), r.SMA), Float(100))

WithPctBelow(frame) ==
    AddColumn([frame EXCEPT !.rows =
                  [i \in 1 .. Len(frame.rows) |->
                      [frame.rows[i] EXCEPT !.PctBelowSMA = PctBelow(frame.rows[i])]]],
              "% Below SMA")

Decorate ==
    /\ pc = "sma"
    /\ LET withSma == WithSMA(data, sma_window)
       IN  IF HasColumn(withSma, "Close") /\ HasColumn(withSma, "SMA")
           THEN /\ data' = WithPctBelow([withSma EXCEPT !.rows = DropNa(@)])
                /\ page' = page
                /\ pc' = "trigger"
           ELSE /\ data' = withSma
                /\ page' = Append(page,
                       Element("error", "One or more required columns were not found.", None, None))
                /\ pc' = "stopped"
    /\ UNCHANGED <<today, start_date, end_date, sma_window, threshold, investment_amount,
                   cache, served, total_invested, total_units, current_value, gain>>

(* ----------- lines 63-82: weekly downtrend, combined trigger ----------- *)

\* The W-FRI bin of a date: the Friday on or after it.
Anchor(d) == d + ((FRI - (d % 7) + 7) % 7)

\* The last Close among the rows of the bin (anchor - 7, anchor]; nan if none.
LastOfWeek(rows, anchor) ==
    LET in == {i \in 1 .. Len(rows) : rows[i].date > anchor - 7 /\ rows[i].date <= anchor}
    IN  IF in = {} THEN NaN
        ELSE Float(rows[CHOOSE i \in in : \A j \in in : j <= i].Close)

\* Line 64: data['Close'].resample('W-FRI').last().
Resample(rows) ==
    IF rows = <<>> THEN <<>>
    ELSE LET first == Anchor(rows[1].date)
             last == Anchor(rows[Len(rows)].date)
         IN  [w \in 1 .. ((last - first) \div 7) + 1 |->
                 [date |-> first + 7 * (w - 1),
                  value |-> LastOfWeek(rows, first + 7 * (w - 1))]]

\* Line 65: weekly.pct_change() * 100; nothing precedes the first week.
PctChange(weekly) ==
    [w \in 1 .. Len(weekly) |->
        IF w = 1 THEN NaN
        ELSE FMul(FSub(FDiv(weekly[w].value, weekly[w - 1].value), Float(1)), Float(100))]

FLessEq(a, b) == FLess(a, b) \/ (~IsNaN(a) /\ a = b)

\* Lines 67-71 with <= 0 for < 0.
WeeklyFlagNotRising(returns, w) ==
    IF w - 1 >= 2 /\ FLessEq(returns[w], Float(0)) /\ FLessEq(returns[w - 1], Float(0))
                  /\ FLessEq(returns[w - 2], Float(0))
    THEN 1 ELSE 0

\* Lines 67-71, for i = w - 1 of the loop; weekly_returns[i] is read by position.
WeeklyFlag(returns, w) ==
    IF w - 1 >= 2 /\ FLess(returns[w], Float(0)) /\ FLess(returns[w - 1], Float(0))
                  /\ FLess(returns[w - 2], Float(0))
    THEN 1 ELSE 0

WeeklyFlags(weekly) ==
    LET returns == PctChange(weekly)
    IN  [w \in 1 .. Len(weekly) |-> [date |-> weekly[w].date, flag |-> WeeklyFlag(returns, w)]]

\* Lines 75-78 flagging every date of a flagged week.
DailyFlagWholeWeek(flags, date) ==
    IF \E w \in 1 .. Len(flags) : flags[w].flag = 1 /\ flags[w].date = Anchor(date) THEN 1 ELSE 0

\* Lines 75-78: the flag of a daily date.
DailyFlag(flags, date) ==
    IF \E w \in 1 .. Len(flags) : flags[w].flag = 1 /\ flags[w].date = date THEN 1 ELSE 0

\* Line 81 with & for |.
CombinedTriggerBoth(pct, limit, downtrend) ==
    IF FLess(pct, Float(limit)) /\ downtrend = 1 THEN 1 ELSE 0

\* Line 81.
CombinedTrigger(pct, limit, downtrend) ==
    IF FLess(pct, Float(limit)) \/ downtrend = 1 THEN 1 ELSE 0

Trigger ==
    /\ pc = "trigger"
    /\ LET flags == WeeklyFlags(Resample(data.rows))
           flagged == [i \in 1 .. Len(data.rows) |->
                          [data.rows[i] EXCEPT !.Downtrend = DailyFlag(flags, data.rows[i].date)]]
           bought == [i \in 1 .. Len(flagged) |->
                          LET b == CombinedTrigger(flagged[i].PctBelowSMA, threshold,
                                                   flagged[i].Downtrend)
                          IN  [flagged[i] EXCEPT !.BUY = b,
                                                 !.BUYFlag = IF b = 1 THEN "BUY" ELSE ""]]
       IN  data' = [data EXCEPT !.rows = bought,
                                !.columns = @ \cup {<<"3-Week Downtrend">>, <<"BUY">>,
                                                    <<"BUY Flag">>}]
    /\ pc' = "simulate"
    /\ UNCHANGED <<today, start_date, end_date, sma_window, threshold, investment_amount,
                   cache, served, page, total_invested, total_units, current_value, gain>>

(* ------------------------ lines 84-91: simulation ---------------------- *)

\* Line 85.
UnitsOf(r, amount) == IF r.BUY = 1 THEN FDiv(Float(amount), Float(r.Close)) ELSE Float(0)

\* Line 86 without the BUY condition.
InvestmentOfEveryRow(r, amount) == amount

\* Line 86.
InvestmentOf(r, amount) == IF r.BUY = 1 THEN amount ELSE 0

\* Line 89 with iloc[0].
CurrentPriceFirst(rows) == Float(rows[1].Close)

\* Line 89: data['Close'].iloc[-1].
CurrentPrice(rows) == Float(rows[Len(rows)].Close)

Simulate ==
    /\ pc = "simulate"
    /\ LET rows == [i \in 1 .. Len(data.rows) |->
                       [data.rows[i] EXCEPT
                           !.UnitsBought = UnitsOf(data.rows[i], investment_amount),
                           !.Investment = InvestmentOf(data.rows[i], investment_amount)]]
           invested == ISum([i \in 1 .. Len(rows) |-> rows[i].Investment])
           units == FSum([i \in 1 .. Len(rows) |-> rows[i].UnitsBought])
       IN  /\ data' = [data EXCEPT !.rows = rows,
                                   !.columns = @ \cup {<<"Units Bought">>, <<"Investment">>}]
           /\ total_invested' = invested
           /\ total_units' = units
           /\ IF rows = <<>>
              THEN \* iloc[-1] of an empty Series raises IndexError; nothing catches it
                   /\ page' = Append(page, Element("exception", "IndexError", None, None))
                   /\ pc' = "failed"
                   /\ UNCHANGED <<current_value, gain>>
              ELSE /\ current_value' = FMul(units, CurrentPrice(rows))
                   /\ gain' = FSub(FMul(units, CurrentPrice(rows)), Float(invested))
                   /\ page' = page
                   /\ pc' = "display"
    /\ UNCHANGED <<today, start_date, end_date, sma_window, threshold, investment_amount,
                   cache, served>>

(* ------------------------- lines 93-119: display ----------------------- *)

\* Line 96: (gain/total_invested)*100, whatever total_invested is.
GainPercent(g, invested) == FMul(FDiv(g, Float(invested)), Float(100))

BuyCount(rows) == Cardinality({i \in 1 .. Len(rows) : rows[i].BUY = 1})

Display ==
    /\ pc = "display"
    /\ page' = page \o
          <<Element("metric", "Total Invested (AUD)", Format2f(Float(total_invested)), None),
            Element("metric", "Current Value (AUD)", Format2f(current_value), None),
            Element("metric", "Total Gain (AUD)", Format2f(gain),
                    Format2f(GainPercent(gain, total_invested))),
            Element("dataframe", "tail", <<"rows", Min(TableRows, Len(data.rows))>>, None),
            Element("plotly_chart", "VGS Close Price & SMA with BUY Signals",
                    <<"markers", BuyCount(data.rows)>>, None)>>
    /\ pc' = "done"
    /\ UNCHANGED <<today, start_date, end_date, sma_window, threshold, investment_amount,
                   cache, served, data, total_invested, total_units, current_value, gain>>

(* ------------------------------ re-runs -------------------------------- *)

Ended == pc \in {"done", "stopped", "failed"}

\* Streamlit runs the script again from the top, the same day or a later one;
\* the script's variables start afresh, the cache of load_data() is kept.
Rerun ==
    /\ Ended
    /\ \E later \in {today, today + 1} :
          /\ later <= Day0 + MaxDays
          /\ today' = later
    /\ pc' = "configure"
    /\ start_date' = Day0 - WindowDays
    /\ end_date' = Day0
    /\ sma_window' = SmaMin
    /\ threshold' = ThresholdMin
    /\ investment_amount' = AmountMin
    /\ served' = "none"
    /\ data' = EmptyFrame
    /\ page' = <<>>
    /\ total_invested' = 0
    /\ total_units' = Float(0)
    /\ current_value' = Float(0)
    /\ gain' = Float(0)
    /\ UNCHANGED cache

Next ==
    \/ Configure
    \/ LoadDataMiss
    \/ LoadDataHit
    \/ PrepareData
    \/ Decorate
    \/ Trigger
    \/ Simulate
    \/ Display
    \/ Rerun

Spec == Init /\ [][Next]_vars

(* ======================= properties of the script ====================== *)

AfterDecorate == pc \in {"trigger", "simulate", "display", "done", "failed"}

AfterTrigger == pc \in {"simulate", "display", "done", "failed"}

AfterSimulate == pc \in {"display", "done"}

Rows == data.rows

Idx == 1 .. Len(data.rows)

\* The frame load_data() returned in this run, flattened.
Loaded == Flatten(cache.value)

Rendered(kind) == {i \in 1 .. Len(page) : page[i].kind = kind}

Results == Rendered("metric") \cup Rendered("dataframe") \cup Rendered("plotly_chart")

Buys == {i \in Idx : Rows[i].BUY = 1}

RECURSIVE CloseTotal(_, _, _)
CloseTotal(rows, lo, hi) == IF lo > hi THEN 0 ELSE rows[lo].Close + CloseTotal(rows, lo + 1, hi)

(* ---- C5 ---- *)

\* C5: every date kept in the decorated series has a defined moving average;
\* the first sma_window - 1 loaded dates are dropped (not zero-filled) before
\* the deviation, the downtrend flag, the buy flag and the simulation are
\* computed, and each kept date's average is the mean of its sma_window closes.
C5_Theorem ==
    AfterDecorate =>
        /\ \A i \in Idx : IsFinite(Rows[i].SMA) /\ Rows[i].SMA[1] > 0
        /\ ~Unusable(Loaded) =>
              /\ Len(Rows) = Max(0, Len(Loaded.rows) - sma_window + 1)
              /\ \A j \in Idx :
                    /\ Rows[j].date = Loaded.rows[j + sma_window - 1].date
                    /\ Rows[j].Close = Loaded.rows[j + sma_window - 1].Close
                    /\ Rows[j].SMA[1] * sma_window
                          = Rows[j].SMA[2] * CloseTotal(Loaded.rows, j, j + sma_window - 1)

C5_Witness ==
    /\ pc = "done"
    /\ ~Unusable(Loaded)
    /\ Len(Rows) >= 2
    /\ Len(Loaded.rows) = Len(Rows) + sma_window - 1
    /\ \E i \in Idx : Float(Rows[i].Close) # Rows[i].SMA

(* ---- C3 ---- *)

InWeek(anchor) == {i \in Idx : Rows[i].date > anchor - 7 /\ Rows[i].date <= anchor}

\* The last close of the week ending at anchor.
WeekClose(anchor) == Rows[CHOOSE i \in InWeek(anchor) : \A j \in InWeek(anchor) : j <= i].Close

\* The weekly return of the week ending at anchor is negative.
ReturnNegative(anchor) ==
    /\ InWeek(anchor) # {}
    /\ InWeek(anchor - 7) # {}
    /\ WeekClose(anchor) < WeekClose(anchor - 7)

\* The 0-based index of the week ending at anchor among the resampled weeks.
WeekIndex(anchor) == (anchor - Anchor(Rows[1].date)) \div 7

FlaggedWeek(anchor) ==
    /\ WeekIndex(anchor) >= 2
    /\ ReturnNegative(anchor)
    /\ ReturnNegative(anchor - 7)
    /\ ReturnNegative(anchor - 14)

\* C3: the downtrend flag of a daily date is 1 exactly when the date is itself
\* a W-FRI anchor (a Friday) whose week and the two weeks before it all have a
\* negative weekly return; it is 0 at every other date.
C3_Theorem ==
    AfterTrigger =>
        \A i \in Idx :
            /\ Rows[i].Downtrend \in {0, 1}
            /\ Rows[i].Downtrend = 1 <=>
                  (Rows[i].date % 7 = FRI /\ FlaggedWeek(Rows[i].date))

\* A flagged Friday with another, unflagged, date of the same week.
C3_Witness ==
    /\ pc = "simulate"
    /\ \E i \in Idx :
          /\ Rows[i].Downtrend = 1
          /\ \E j \in Idx : j # i /\ Anchor(Rows[j].date) = Rows[i].date /\ Rows[j].Downtrend = 0

\* A week whose returns flag it while its Friday is not a row of the series.
C3_MissingAnchor ==
    /\ pc = "simulate"
    /\ \E i \in Idx :
          /\ Rows[i].date % 7 # FRI
          /\ FlaggedWeek(Anchor(Rows[i].date))
          /\ \A j \in Idx : Rows[j].date # Anchor(Rows[i].date)

(* ---- C4 ---- *)

\* (Close - SMA) / SMA * 100 < threshold, in integers (SMA is positive).
BelowThreshold(r) == 100 * (r.Close * r.SMA[2] - r.SMA[1]) < threshold * r.SMA[1]

\* C4: BUY is 1 at a date if and only if its deviation from the moving average
\* is below the threshold or its downtrend flag is set.
C4_Theorem ==
    AfterTrigger =>
        \A i \in Idx :
            /\ Rows[i].BUY \in {0, 1}
            /\ Rows[i].BUY = 1 <=> (BelowThreshold(Rows[i]) \/ Rows[i].Downtrend = 1)

\* One series with a buy from the downtrend alone, a buy from the deviation
\* alone, and a date that is no buy.
C4_Witness ==
    /\ pc = "simulate"
    /\ \E i \in Idx : Rows[i].BUY = 1 /\ Rows[i].Downtrend = 1 /\ ~BelowThreshold(Rows[i])
    /\ \E i \in Idx : Rows[i].BUY = 1 /\ Rows[i].Downtrend = 0 /\ BelowThreshold(Rows[i])
    /\ \E i \in Idx : Rows[i].BUY = 0

(* ---- C2 ---- *)

\* C2: total_invested is investment_amount times the number of BUY dates, and
\* a date that is no BUY adds neither investment nor units.
C2_Theorem ==
    pc \in {"display", "done", "failed"} =>
        /\ total_invested = investment_amount * Cardinality(Buys)
        /\ \A i \in Idx \ Buys : Rows[i].Investment = 0 /\ Rows[i].UnitsBought = Float(0)

C2_Witness ==
    /\ pc = "done"
    /\ Cardinality(Buys) >= 2
    /\ Idx \ Buys # {}
    /\ investment_amount = AmountDefault

(* ---- C7 ---- *)

RECURSIVE Lcm(_)
Lcm(s) == IF s = <<>> THEN 1 ELSE LET rest == Lcm(Tail(s)) IN (s[1] * rest) \div Gcd(s[1], rest)

\* A number that makes investment_amount / close whole for every close of the ladder.
UnitScale ==
    Lcm([k \in 1 .. Len(Ladder) |-> Ladder[k] \div Gcd(investment_amount, Ladder[k])])

RECURSIVE ScaledUnits(_)
\* UnitScale times the units the BUY dates among rows 1..n buy.
ScaledUnits(n) ==
    IF n = 0 THEN 0
    ELSE ScaledUnits(n - 1)
           + (IF Rows[n].BUY = 1 THEN (investment_amount * UnitScale) \div Rows[n].Close ELSE 0)

\* C7: after the scan total_units is the sum of investment_amount / close over
\* the BUY dates, current_value is total_units times the close of the last
\* date of the filtered series, and gain is current_value - total_invested.
C7_Theorem ==
    AfterSimulate =>
        /\ \A i \in Idx : (investment_amount * UnitScale) % Rows[i].Close = 0
        /\ total_units[2] > 0
        /\ total_units[1] * UnitScale = total_units[2] * ScaledUnits(Len(Rows))
        /\ current_value = Norm(total_units[1] * Rows[Len(Rows)].Close, total_units[2])
        /\ gain = Norm(current_value[1] - total_invested * current_value[2], current_value[2])

\* Buys at two different closes, the last close differing from the first.
C7_Witness ==
    /\ pc = "done"
    /\ \E i, j \in Buys : Rows[i].Close # Rows[j].Close
    /\ Rows[Len(Rows)].Close # Rows[1].Close
    /\ gain[1] # 0

(* ---- C9 ---- *)

ConstantClose(rows) == \A i, j \in 1 .. Len(rows) : rows[i].Close = rows[j].Close

\* C9: for a loaded series whose close is constant, every kept date has the
\* constant as its moving average, a deviation of 0, no downtrend flag and no
\* BUY, whatever the threshold, and nothing is invested.
C9_Theorem ==
    (pc \in {"display", "done"} /\ ~Unusable(Loaded) /\ ConstantClose(Loaded.rows)) =>
        /\ \A i \in Idx :
              /\ Rows[i].SMA = Float(Loaded.rows[1].Close)
              /\ Rows[i].PctBelowSMA = Float(0)
              /\ Rows[i].Downtrend = 0
              /\ Rows[i].BUY = 0
        /\ total_invested = 0

\* The spec's scenario: 10 rows at 100, a window of 5, rows 5-10 kept.
C9_Witness ==
    /\ pc = "done"
    /\ ~Unusable(Loaded)
    /\ ConstantClose(Loaded.rows)
    /\ Len(Loaded.rows) = 10
    /\ Loaded.rows[1].Close = 100
    /\ sma_window = 5
    /\ Len(Rows) = 6
    /\ threshold = ThresholdMax

(* ---- C6 ---- *)

Warned == {i \in Rendered("warning") : page[i].label = "Falling back to demo data."}

\* C6: when load_data() returned an empty frame or one without Close, no
\* signal is computed and no metric, table or chart is rendered before the
\* run has either halted on a data-unavailable error or replaced the frame by
\* the demo series and shown the fallback warning.
C6_Theorem ==
    (served # "none" /\ Unusable(Loaded)) =>
        /\ pc = "prepare" => Results = {}
        /\ pc # "prepare" =>
              \/ pc = "stopped" /\ Rendered("error") # {} /\ Results = {}
              \/ /\ Warned # {}
                 /\ \A i \in Results : \E w \in Warned : w < i
                 /\ HasColumn(data, "Close")
                 /\ pc = "sma" => ~Unusable(data)

C6_Witness ==
    /\ pc = "done"
    /\ Unusable(Loaded)
    /\ IsEmpty(Loaded)
    /\ Rendered("metric") # {}
    /\ Rendered("plotly_chart") # {}

(* ---- C1, C8, C10: statements the script does not meet ---- *)

TotalGain == {i \in Rendered("metric") : page[i].label = "Total Gain (AUD)"}

\* C1: a run over a non-empty decorated series without any BUY date ends with
\* total_units = 0, total_invested = 0 and current_value = 0 and shows the
\* gain percentage as not applicable, not as the result of 0/0.
C1_Claim ==
    (pc \in {"done", "stopped", "failed"} /\ AfterTrigger /\ Rows # <<>> /\ Buys = {}) =>
        /\ pc = "done"
        /\ total_units = Float(0)
        /\ total_invested = 0
        /\ current_value = Float(0)
        /\ TotalGain # {}
        /\ \A i \in TotalGain : page[i].delta = None

\* C8: a run served from the cache gets a series that was fetched for the
\* run's own date range.
C8_Claim ==
    served = "cache" => (cache.start = start_date /\ cache.end = end_date)

\* C10: every run ends either with the results rendered or with one
\* data-unavailable message, never in an unhandled failure.
C10_Claim ==
    Ended =>
        \/ pc = "done" /\ Results # {} /\ Rendered("exception") = {}
        \/ pc = "stopped" /\ Cardinality(Rendered("error")) = 1 /\ Results = {}
                          /\ Rendered("exception") = {}

====
